---- MODULE Spec2Model ----
(***************************************************************************)
(* Historical Object Prediction (HoP): HoP.forward (hop.py) and            *)
(* ObjectDecoder.forward (object_decoder.py).                              *)
(*                                                                         *)
(* Tensors live in a heap; a Python list is a sequence of heap ids, so     *)
(* that aliasing between B_adj and the caller's list is visible.  A tensor *)
(* of shape (bs, bev_h*bev_w, embed_dims) is a function b -> p -> d -> Int.*)
(* Coordinates of the object decoder are fixed-point numbers: sigmoid      *)
(* values are in units of 1/SigOne, metres in units of 1/(10*SigOne).      *)
(***************************************************************************)
EXTENDS Integers, Sequences, FiniteSets, TLC

(* ---- bounds of the model ---- *)
MaxN == 4
MaxCalls == 2
MaxBatch == 2
MaxBev == 2
MaxClasses == 2
MaxLogit == 1
EmbedDims == 1
TagBase == 1000

(* ---- program constants ---- *)
DefaultNumClasses == 10
num_query == 900
num_layers == 6
code_size == 10
pc_range == <<-512, -512, -50, 512, 512, 30>>
EpsLogit == 12

None == "None"

\* self, weights: the module and its learned parameters; heap: the tensors;
\* bev_history: the caller's list object (B_rem is the same object);
\* input: history variable, the caller's list as it was before the first call;
\* popped: the value of bev_history.pop(self.k); td: the arguments of the
\* temporal decoder call; od: the locals of ObjectDecoder.forward
VARIABLES self, weights, heap, bev_history, input, pc, t, B_adj, popped, td, B_pred,
          od, outs, calls

vars == <<self, weights, heap, bev_history, input, pc, t, B_adj, popped, td, B_pred,
          od, outs, calls>>

(* ---- Python list primitives ---- *)

\* list index resolution: negative indices count from the end; -1 when out of range
PyIndex(s, i) ==
    LET j == IF i < 0 THEN i + Len(s) ELSE i
    IN  IF j >= 0 /\ j < Len(s) THEN j ELSE -1

ListReverseMut(s) == s

\* list.reverse()
ListReverse(s) == [i \in 1..Len(s) |-> s[Len(s) + 1 - i]]

ListPopMutKeep(s, j) == [i \in 1..(Len(s) - 1) |-> IF i < j + 2 THEN s[i] ELSE s[i + 1]]

ListPopMutTwo(s, j) == [i \in 1..(Len(s) - 2) |-> IF i < j + 1 THEN s[i] ELSE s[i + 2]]

\* list.pop(j) for a resolved index j (0-based): the list without element j
ListPop(s, j) == [i \in 1..(Len(s) - 1) |-> IF i < j + 1 THEN s[i] ELSE s[i + 1]]

AdjacentIndicesMut(k) == <<k - 1, k + 2>>

\* the two subscripts of B_adj
AdjacentIndices(k) == <<k - 1, k + 1>>

(* ---- tensors ---- *)

\* the input frame at time t-i: distinguishable by its tag i+1
FrameData(i, bs, hw) ==
    [b \in 1..bs |-> [p \in 1..hw |-> [d \in 1..EmbedDims |->
        TagBase * (i + 1) + 7 * (b - 1) + 3 * (p - 1) + (d - 1)]]]

Tag(x) == x[1][1][1] \div TagBase

\* nn.Embedding(history_length - 1, embed_dims).weight, rows 0..N-2, distinct rows
EmbeddingWeight(N) == [r \in 0..(N - 2) |-> [d \in 1..EmbedDims |-> 10 * (r + 1) + d]]

\* weight.unsqueeze(1).repeat(1, bev_h*bev_w, 1): shape (N-1, hw, D)
TemporalPosEmbeds(w, hw) == [r \in DOMAIN w |-> [p \in 1..hw |-> [d \in 1..EmbedDims |-> w[r][d]]]]

\* x + e with e of shape (hw, D) broadcast over the batch dimension
TensorAdd(x, e) ==
    [b \in DOMAIN x |-> [p \in DOMAIN x[b] |-> [d \in DOMAIN x[b][p] |-> x[b][p][d] + e[p][d]]]]

EmbedRowMut(r) == IF r = 0 THEN 0 ELSE r - 1

\* the row of temporal_pos_embeds used for list position r
EmbedRow(r) == r

EmbedAssignInPlace(h, lst, r, e) ==
    [heap |-> [h EXCEPT ![lst[r + 1]] = TensorAdd(h[lst[r + 1]], e)], list |-> lst]

\* B_rem[r] = bev_features + e: a new tensor is stored in list slot r
EmbedAssign(h, lst, r, e) ==
    [heap |-> Append(h, TensorAdd(h[lst[r + 1]], e)),
     list |-> [lst EXCEPT ![r + 1] = Len(h) + 1]]

(* ---- construction ---- *)

\* no result yet
NoOuts == [bev_embed |-> <<>>,
           all_cls_scores |-> [shape |-> <<>>, rows |-> <<>>],
           all_bbox_preds |-> [shape |-> <<>>, rows |-> <<>>],
           enc_cls_scores |-> None,
           enc_bbox_preds |-> None]

HoPInit(k, N, bev_h, bev_w, num_classes) ==
    [k |-> k, N |-> N, embed_dims |-> EmbedDims, bev_h |-> bev_h, bev_w |-> bev_w,
     num_classes |-> num_classes, temp_embedding |-> EmbeddingWeight(N)]

NoOd == [bs |-> 0, init_reference |-> <<>>, inter_references |-> <<>>, hs_shape |-> <<>>,
         lvl |-> 0, outputs_classes |-> <<>>, outputs_coords |-> <<>>]

Init ==
    /\ \E N \in 2..MaxN, k \in (-1)..(MaxN - 1), bh \in 1..MaxBev, bw \in 1..MaxBev :
          self = HoPInit(k, N, bh, bw, DefaultNumClasses)
    /\ weights = [reference_points |-> <<0, 1, -1>>, reg_xy |-> 1, reg_z |-> -1]
    /\ \E L \in 0..MaxN, bs \in 1..MaxBatch :
          /\ heap = [i \in 1..L |-> FrameData(i - 1, bs, self.bev_h * self.bev_w)]
          /\ bev_history = [i \in 1..L |-> i]
    /\ input = bev_history
    /\ pc = "idle"
    /\ t = 0
    /\ B_adj = <<>>
    /\ popped = 0
    /\ td = <<>>
    /\ B_pred = <<>>
    /\ od = NoOd
    /\ outs = NoOuts
    /\ calls = 0

(* ---- HoP.forward ---- *)

Begin ==
    /\ pc \in {"idle", "returned"}
    /\ calls < MaxCalls
    /\ pc' = IF Len(bev_history) = 0 THEN "error" ELSE "reverse"
    /\ t' = 0
    /\ B_adj' = <<>>
    /\ popped' = 0
    /\ td' = <<>>
    /\ B_pred' = <<>>
    /\ od' = NoOd
    /\ outs' = NoOuts
    /\ UNCHANGED <<self, weights, input, heap, bev_history, calls>>

Reverse ==
    /\ pc = "reverse"
    /\ bev_history' = ListReverse(bev_history)
    /\ pc' = "adjacent"
    /\ UNCHANGED <<self, weights, input, heap, t, B_adj, popped, td, B_pred, od, outs, calls>>

Adjacent ==
    /\ pc = "adjacent"
    /\ LET a == PyIndex(bev_history, AdjacentIndices(self.k)[1])
           b == PyIndex(bev_history, AdjacentIndices(self.k)[2])
       IN  IF a < 0 \/ b < 0
           THEN /\ pc' = "error"
                /\ B_adj' = B_adj
           ELSE /\ pc' = "pop"
                /\ B_adj' = <<bev_history[a + 1], bev_history[b + 1]>>
    /\ UNCHANGED <<self, weights, input, heap, bev_history, t, popped, td, B_pred, od, outs, calls>>

Pop ==
    /\ pc = "pop"
    /\ LET j == PyIndex(bev_history, self.k)
       IN  IF j < 0
           THEN /\ pc' = "error"
                /\ UNCHANGED <<bev_history, popped>>
           ELSE /\ pc' = "embed"
                /\ popped' = bev_history[j + 1]
                /\ bev_history' = ListPop(bev_history, j)
    /\ t' = 0
    /\ UNCHANGED <<self, weights, input, heap, B_adj, td, B_pred, od, outs, calls>>

EmbedStep ==
    /\ pc = "embed"
    /\ t < Len(bev_history)
    /\ LET tpe == TemporalPosEmbeds(self.temp_embedding, self.bev_h * self.bev_w)
           r == EmbedRow(t)
       IN  IF r \notin DOMAIN tpe
           THEN /\ pc' = "error"
                /\ UNCHANGED <<heap, bev_history, t>>
           ELSE LET res == EmbedAssign(heap, bev_history, t, tpe[r])
                IN  /\ heap' = res.heap
                    /\ bev_history' = res.list
                    /\ t' = t + 1
                    /\ pc' = pc
    /\ UNCHANGED <<self, weights, input, B_adj, popped, td, B_pred, od, outs, calls>>

TemporalDecode ==
    /\ pc = "embed"
    /\ t = Len(bev_history)
    /\ td' = <<B_adj, bev_history>>
    /\ B_pred' = <<Len(heap[B_adj[1]]), self.bev_h * self.bev_w, self.embed_dims>>
    /\ pc' = "object_decoder"
    /\ UNCHANGED <<self, weights, input, heap, bev_history, t, B_adj, popped, od, outs, calls>>

(* ---- ObjectDecoder.forward ---- *)

\* sigmoid on integer logits, in units of 1/SigOne; entry i is sigmoid(i-1)
SigTable == <<500, 731, 881, 953, 982, 993, 998>>

SigOne == 2 * SigTable[1]

\* floating-point sigmoid returns exactly 0 or 1 for large magnitudes
Sigmoid(x) ==
    IF x >= Len(SigTable) THEN SigOne
    ELSE IF x <= -Len(SigTable) THEN 0
    ELSE IF x >= 0 THEN SigTable[x + 1]
    ELSE SigOne - SigTable[1 - x]

\* log(max(x, eps) / max(1 - x, eps)) with x clamped to [0, 1]
InverseSigmoid(s) ==
    IF s <= 0 THEN -EpsLogit
    ELSE IF s >= SigOne THEN EpsLogit
    ELSE CHOOSE x \in (1 - Len(SigTable))..(Len(SigTable) - 1) : Sigmoid(x) = s

DenormalizeMut(v, lo, hi) == v * (hi - lo) + hi * SigOne

\* v * (pc_range[hi] - pc_range[lo]) + pc_range[lo]
Denormalize(v, lo, hi) == v * (hi - lo) + lo * SigOne

\* output of reg_branches[lvl] for one query: code_size raw values
RegBranch(w) ==
    [c \in 0..(code_size - 1) |-> IF c = 4 THEN w.reg_z ELSE w.reg_xy]

\* the per-layer box refinement of one query row
BoxCoords(tmp, reference) ==
    LET a == [tmp EXCEPT ![0] = Sigmoid(tmp[0] + reference[1]),
                         ![1] = Sigmoid(tmp[1] + reference[2])]
        b == [a EXCEPT ![4] = Sigmoid(a[4] + reference[3])]
        c == [b EXCEPT ![0] = Denormalize(b[0], pc_range[1], pc_range[4])]
        d == [c EXCEPT ![1] = Denormalize(c[1], pc_range[2], pc_range[5])]
    IN  [d EXCEPT ![4] = Denormalize(d[4], pc_range[3], pc_range[6])]

\* reference point refined by one decoder layer
RefineReference(ref, tmp) ==
    <<Sigmoid(tmp[0] + InverseSigmoid(ref[1])),
      Sigmoid(tmp[1] + InverseSigmoid(ref[2])),
      Sigmoid(tmp[4] + InverseSigmoid(ref[3]))>>

RECURSIVE DecoderReferences(_, _, _)
\* inter_references returned by the transformer decoder: one per layer
DecoderReferences(ref, tmp, n) ==
    IF n = 0 THEN <<>>
    ELSE LET r == RefineReference(ref, tmp)
         IN  <<r>> \o DecoderReferences(r, tmp, n - 1)

\* torch.stack of equally shaped tensors
Stack(list) ==
    [shape |-> <<Len(list)>> \o (IF Len(list) = 0 THEN <<>> ELSE list[1].shape),
     rows |-> [i \in 1..Len(list) |-> list[i].row]]

ObjBegin ==
    /\ pc = "object_decoder"
    /\ LET bs == B_pred[1]
           q == weights.reference_points
           init == <<Sigmoid(q[1]), Sigmoid(q[2]), Sigmoid(q[3])>>
       IN  od' = [bs |-> bs,
                  init_reference |-> init,
                  inter_references |-> DecoderReferences(init, RegBranch(weights), num_layers),
                  hs_shape |-> <<num_layers, bs, num_query, self.embed_dims>>,
                  lvl |-> 0,
                  outputs_classes |-> <<>>,
                  outputs_coords |-> <<>>]
    /\ pc' = "obj_layer"
    /\ UNCHANGED <<self, weights, input, heap, bev_history, t, B_adj, popped, td, B_pred, outs, calls>>

ObjLayer ==
    /\ pc = "obj_layer"
    /\ od.lvl < od.hs_shape[1]
    /\ LET ref == IF od.lvl = 0 THEN od.init_reference ELSE od.inter_references[od.lvl]
           reference == [i \in 1..Len(ref) |-> InverseSigmoid(ref[i])]
           outputs_class == [shape |-> <<od.hs_shape[2], od.hs_shape[3], self.num_classes>>,
                             row |-> <<>>]
           tmp == RegBranch(weights)
       IN  IF Len(reference) # 3
           THEN /\ pc' = "error"
                /\ od' = od
           ELSE /\ pc' = pc
                /\ od' = [od EXCEPT
                     !.lvl = @ + 1,
                     !.outputs_classes = Append(@, outputs_class),
                     !.outputs_coords = Append(@,
                         [shape |-> <<od.hs_shape[2], od.hs_shape[3], code_size>>,
                          row |-> BoxCoords(tmp, reference)])]
    /\ UNCHANGED <<self, weights, input, heap, bev_history, t, B_adj, popped, td, B_pred, outs, calls>>

ObjReturn ==
    /\ pc = "obj_layer"
    /\ od.lvl = od.hs_shape[1]
    /\ outs' = [bev_embed |-> <<B_pred[2], B_pred[1], B_pred[3]>>,
                all_cls_scores |-> Stack(od.outputs_classes),
                all_bbox_preds |-> Stack(od.outputs_coords),
                enc_cls_scores |-> None,
                enc_bbox_preds |-> None]
    /\ pc' = "returned"
    /\ calls' = calls + 1
    /\ UNCHANGED <<self, weights, input, heap, bev_history, t, B_adj, popped, td, B_pred, od>>

Next ==
    \/ Begin
    \/ Reverse
    \/ Adjacent
    \/ Pop
    \/ EmbedStep
    \/ TemporalDecode
    \/ ObjBegin
    \/ ObjLayer
    \/ ObjReturn

Spec == Init /\ [][Next]_vars

(* ---- the object decoder used on its own (object_decoder.py:160-165) ---- *)

Logits == (-MaxLogit)..MaxLogit

InitObj ==
    /\ \E bh \in 1..MaxBev, bw \in 1..MaxBev, nc \in 1..MaxClasses :
          self = HoPInit(1, 3, bh, bw, nc)
    /\ \E q \in Logits, rxy \in Logits, rz \in Logits :
          weights = [reference_points |-> <<q, -q, q>>, reg_xy |-> rxy, reg_z |-> rz]
    /\ heap = <<>>
    /\ bev_history = <<>>
    /\ input = <<>>
    /\ pc = "object_decoder"
    /\ t = 0
    /\ B_adj = <<>>
    /\ popped = 0
    /\ td = <<>>
    /\ \E bs \in 1..MaxBatch : B_pred = <<bs, self.bev_h * self.bev_w, self.embed_dims>>
    /\ od = NoOd
    /\ outs = NoOuts
    /\ calls = 0

NextObj ==
    \/ ObjBegin
    \/ ObjLayer
    \/ ObjReturn

SpecObj == InitObj /\ [][NextObj]_vars

(* ======================= properties ======================= *)

\* the first call of forward has handed its arguments to the temporal decoder
FirstDecoded == td # <<>> /\ (calls = 0 \/ (calls = 1 /\ pc = "returned"))

\* the documented precondition: N >= 3 frames in the list, 1 <= k <= N-2
ValidConfig == self.N >= 3 /\ self.k >= 1 /\ self.k <= self.N - 2 /\ Len(input) = self.N

ValidFirst == FirstDecoded /\ ValidConfig

Ids(s) == {s[i] : i \in 1..Len(s)}

Tags(s) == {Tag(heap[s[i]]) : i \in 1..Len(s)}

\* the frame at (0-based) position i of the input read newest-last
ReversedAt(i) == input[Len(input) - i]

\* the input frame with heap id i, as the caller supplied it
InputFrame(i) == FrameData(i - 1, Len(heap[i]), self.bev_h * self.bev_w)

\* C1: the frame at position k of the reversed history is never among the
\* inputs of the temporal decoder, neither as a tensor nor as the source of one
C1_NoLeak ==
    ValidFirst =>
        /\ popped = ReversedAt(self.k)
        /\ popped \notin (Ids(td[1]) \cup Ids(td[2]))
        /\ Tag(heap[popped]) \notin (Tags(td[1]) \cup Tags(td[2]))

C1_Witness == ValidFirst /\ self.N = 4 /\ self.k = 2 /\ Tag(heap[popped]) = 2

\* C2: the adjacent pair is the frames at reversed indices k-1 and k+1, in that order
C2_AdjacentPair ==
    ValidFirst =>
        td[1] = <<ReversedAt(self.k - 1), ReversedAt(self.k + 1)>>

C2_Witness == ValidFirst /\ self.N = 4 /\ self.k = 1 /\ td[1] = <<4, 2>>

\* C3 as stated: the remote list handed to the temporal decoder has length N-2
C3_RemoteLengthNMinus2 == ValidFirst => Len(td[2]) = self.N - 2

\* C3 amended: the selector hands over the adjacent pair and a remote list of
\* exactly N-1 temporally-embedded frames (every frame but the withheld one)
C3_RemoteLength ==
    ValidFirst =>
        /\ Len(td[1]) = 2
        /\ Len(td[2]) = self.N - 1
        /\ \A i \in 1..Len(td[2]) : td[2][i] \notin Ids(input)

C3_Witness == ValidFirst /\ self.N = 4 /\ Len(td[2]) = 3

\* C4: the temporal decoder is only ever called when the precondition held
\* at the start of the call (k in 1..N-2, N >= 3, list of length N)
C4_FailFast ==
    td # <<>> =>
        /\ self.N >= 3
        /\ self.k >= 1
        /\ self.k <= self.N - 2
        /\ Len(td[2]) + 1 = self.N

\* C5: all_cls_scores has shape (num_layers, batch, num_query, num_classes)
\* and all_bbox_preds has shape (num_layers, batch, num_query, 9)
C5_Shapes ==
    pc = "returned" =>
        /\ outs.all_cls_scores.shape = <<num_layers, B_pred[1], num_query, self.num_classes>>
        /\ outs.all_bbox_preds.shape = <<num_layers, B_pred[1], num_query, 9>>

InRange(v, lo, hi) == lo * SigOne <= v /\ v <= hi * SigOne

BoxInRange(row) ==
    /\ InRange(row[0], pc_range[1], pc_range[4])
    /\ InRange(row[1], pc_range[2], pc_range[5])
    /\ InRange(row[4], pc_range[3], pc_range[6])

\* C6: in every layer's box output x and y lie in [-51.2, 51.2] and z in [-5.0, 3.0]
C6_BoxRange ==
    /\ \A i \in 1..Len(od.outputs_coords) : BoxInRange(od.outputs_coords[i].row)
    /\ \A i \in 1..Len(outs.all_bbox_preds.rows) : BoxInRange(outs.all_bbox_preds.rows[i])

C6_Witness ==
    /\ pc = "returned"
    /\ outs.all_bbox_preds.rows[num_layers][0] = pc_range[4] * SigOne
    /\ outs.all_bbox_preds.rows[num_layers][4] > pc_range[3] * SigOne
    /\ outs.all_bbox_preds.rows[1][0] < pc_range[4] * SigOne

\* the list after the removal, before any embedding is added
PostRemoval ==
    [i \in 1..(Len(input) - 1) |-> IF i <= self.k THEN ReversedAt(i - 1) ELSE ReversedAt(i)]

\* C7: the remote frame at position r of the post-removal list is its source
\* frame plus row r of the embedding table at every spatial position; r is a
\* row of the table and no two remote frames receive the same row
C7_EmbeddingRows ==
    ValidFirst =>
        /\ \A r \in 0..(Len(td[2]) - 1) :
              /\ r \in DOMAIN self.temp_embedding
              /\ r <= self.N - 2
              /\ LET x == heap[td[2][r + 1]]
                     src == InputFrame(PostRemoval[r + 1])
                 IN  \A b \in DOMAIN x : \A p \in 1..(self.bev_h * self.bev_w) :
                        \A d \in DOMAIN x[b][p] :
                            x[b][p][d] - src[b][p][d] = self.temp_embedding[r][d]
        /\ \A r1, r2 \in 0..(Len(td[2]) - 1) :
              r1 # r2 =>
                  heap[td[2][r1 + 1]][1][1][1] - InputFrame(PostRemoval[r1 + 1])[1][1][1]
                      # heap[td[2][r2 + 1]][1][1][1] - InputFrame(PostRemoval[r2 + 1])[1][1][1]

C7_Witness ==
    /\ ValidFirst
    /\ self.N = 4
    /\ self.bev_h * self.bev_w = 4
    /\ heap[td[2][3]][1][4][1] = InputFrame(PostRemoval[3])[1][4][1] + self.temp_embedding[2][1]

TagSeq(s) == [i \in 1..Len(s) |-> Tag(heap[s[i]])]

\* C8: forward consumes the caller's list: between calls its length is the
\* original length minus the number of completed calls; after the first
\* completed call on N frames it is the reversed list without the withheld frame
C8_ConsumesList ==
    /\ pc \in {"idle", "returned"} => Len(bev_history) = Len(input) - calls
    /\ (pc = "returned" /\ calls >= 1) => bev_history # input
    /\ (pc = "returned" /\ calls = 1 /\ ValidConfig) =>
          /\ Len(bev_history) = self.N - 1
          /\ TagSeq(bev_history) = TagSeq(PostRemoval)
          /\ popped \notin Ids(bev_history)
          /\ Tag(heap[popped]) \notin Tags(bev_history)

C8_Witness ==
    /\ pc = "returned"
    /\ calls = 2
    /\ Len(input) = 4
    /\ self.N = 4
    /\ Len(bev_history) = 2

\* C9: with element i of the input at time t-i, the withheld frame is the one
\* at time t-k and the adjacent frames are those at times t-k-1 and t-k+1
C9_DocumentedTimes ==
    ValidFirst =>
        /\ Tag(heap[popped]) - 1 = self.k
        /\ Tag(heap[td[1][1]]) - 1 = self.k + 1
        /\ Tag(heap[td[1][2]]) - 1 = self.k - 1

\* C10: the adjacent frames handed over are the unmodified input frames, while
\* the remote list holds the same two frames at positions k-1 and k with the
\* embedding rows k-1 and k added
C10_AdjacentUntouched ==
    ValidFirst =>
        LET tpe == TemporalPosEmbeds(self.temp_embedding, self.bev_h * self.bev_w)
        IN  /\ \A i \in 1..2 :
                  /\ td[1][i] \in Ids(input)
                  /\ heap[td[1][i]] = InputFrame(td[1][i])
                  /\ td[1][i] \notin Ids(td[2])
            /\ heap[td[2][self.k]] = TensorAdd(InputFrame(td[1][1]), tpe[self.k - 1])
            /\ heap[td[2][self.k + 1]] = TensorAdd(InputFrame(td[1][2]), tpe[self.k])

C10_Witness ==
    /\ ValidFirst
    /\ self.k = 2
    /\ heap[td[2][2]] # heap[td[1][1]]
    /\ Tag(heap[td[2][2]]) = Tag(heap[td[1][1]])
====
